---- MODULE Spec2Model ----
(***************************************************************************)
(* The event-driven state machine dispatcher of src/fsm_cpp/qfsm.hpp       *)
(* (template class QFsm<F>) and the two-state example machine MyFSM of     *)
(* src/fsm_cpp/main.cpp.                                                   *)
(*                                                                         *)
(* init and dispatch are modelled statement by statement: one action per   *)
(* call of the operation and one per handler invocation it makes, with pc  *)
(* holding the line of qfsm.hpp that runs next.  A handler is application  *)
(* code: a call of it returns an int (QState is int), one of the three     *)
(* result values or another, and may assign m_state (Q_TRAN) any handler   *)
(* or nullptr, whether or not it returns the transition result; it may     *)
(* throw instead of returning, and it may call init or dispatch on its own *)
(* machine, before or after an assignment to m_state.                      *)
(*                                                                         *)
(* The specifications:                                                     *)
(*   Spec        a machine class F with arbitrary handlers, driven by any  *)
(*               caller (init and dispatch in any order, any signal);      *)
(*   SpecFair    Spec with every started call running to completion;       *)
(*   SpecMain    the class MyFSM with state_a and state_b, driven as       *)
(*               main() drives it: init(&state_a), then ten dispatches;    *)
(*   SpecMainAny main() with any signal in the events it dispatches;       *)
(*   SpecMyFSM   the class MyFSM driven by any caller, who may also call   *)
(*               its public handlers directly;                             *)
(*   SpecLife    Spec with the ENTRY and EXIT events of every handler      *)
(*               counted, for handlers that keep the handler contract;     *)
(*   SpecNested  a machine initialised and sent one event, with a handler  *)
(*               that calls init or dispatch on its own machine;           *)
(*   SpecTwo     several machine objects of the class F, with copy         *)
(*               assignment between them.                                  *)
(***************************************************************************)
EXTENDS Integers, Sequences, FiniteSets

(***************************************************************************)
(* Values of qfsm.hpp                                                      *)
(***************************************************************************)
\* enum QEventResult
Q_EVENT_HANDLED == 0
Q_EVENT_IGNORED == 1
Q_EVENT_TRAN == 2

\* enum QReservedSignal
Q_EMPTY_SIG == 0
Q_ENTRY_SIG == 1
Q_EXIT_SIG == 2
Q_INIT_SIG == 3

\* enum MyFSM::new_event
Q_TIMEOUT_SIG == Q_INIT_SIG + 1

\* The largest signal value a caller dispatches in the model.
MaxSig == 5

\* The number of handlers of the arbitrary machine class F.
NumHandlers == 3

\* The length up to which a streak of dispatches is counted.
MaxRun == 3

\* The bound of the loop in main().
MainLoopCount == 10

Signals == 0 .. MaxSig

\* struct QEvent
QEvent(sig) == [sig |-> sig]

\* The table with the entry of Q_EMPTY_SIG left out: every index is off by one.
m_reserved_ev_shifted == [i \in 0 .. 3 |-> QEvent((i + 1) % 4)]

\* static const QEvent QFsm<F>::m_reserved_ev[]: entry i is indexed by the
\* reserved signal i.
m_reserved_ev == [i \in 0 .. 3 |->
                    CASE i = 0 -> QEvent(Q_EMPTY_SIG)
                      [] i = 1 -> QEvent(Q_ENTRY_SIG)
                      [] i = 2 -> QEvent(Q_EXIT_SIG)
                      [] i = 3 -> QEvent(Q_INIT_SIG)]

\* static const QEvent MyFSM::my_event[]
my_event == [i \in {0} |-> QEvent(Q_TIMEOUT_SIG)]

(***************************************************************************)
(* Handlers.  A state is a pointer to a member function of F; nullptr is   *)
(* the value the constructor stores.  The pointers of MyFSM are            *)
(* p_state_a and p_state_b; those of the class F are 3 .. NumHandlers + 2. *)
(* A pointer to a member of one class cannot be stored in the m_state of   *)
(* another: QStateHandler is a pointer to a member function of F.         *)
(***************************************************************************)
nullptr == 0
p_state_a == 1
p_state_b == 2

MyFSM_handlers == {p_state_a, p_state_b}
F_handlers == 3 .. (NumHandlers + 2)
QStateHandler == MyFSM_handlers \cup F_handlers

\* What a handler invocation does to the machine: the value it returns and,
\* when it went through Q_TRAN, the handler it stored in m_state.
Q_HANDLED == [ret |-> Q_EVENT_HANDLED, tran |-> FALSE, target |-> nullptr]
Q_IGNORED == [ret |-> Q_EVENT_IGNORED, tran |-> FALSE, target |-> nullptr]
Q_TRAN(target_) == [ret |-> Q_EVENT_TRAN, tran |-> TRUE, target |-> target_]

\* state_a moving on as soon as it is entered: case Q_ENTRY_SIG returns
\* Q_TRAN(&MyFSM::state_b).
state_a_entry_tran(ev) ==
    CASE ev.sig = Q_ENTRY_SIG -> Q_TRAN(p_state_b)
      [] ev.sig = Q_EXIT_SIG -> Q_HANDLED
      [] ev.sig = Q_TIMEOUT_SIG -> Q_TRAN(p_state_b)
      [] OTHER -> Q_HANDLED

\* state_a with the break of case Q_EXIT_SIG missing: the EXIT falls through
\* to the timeout case and returns Q_TRAN(&MyFSM::state_b).
state_a_fallthrough(ev) ==
    CASE ev.sig = Q_ENTRY_SIG -> Q_HANDLED
      [] ev.sig = Q_EXIT_SIG -> Q_TRAN(p_state_b)
      [] ev.sig = Q_TIMEOUT_SIG -> Q_TRAN(p_state_b)
      [] OTHER -> Q_HANDLED

\* MyFSM::state_a
state_a(ev) ==
    CASE ev.sig = Q_ENTRY_SIG -> Q_HANDLED
      [] ev.sig = Q_EXIT_SIG -> Q_HANDLED
      [] ev.sig = Q_TIMEOUT_SIG -> Q_TRAN(p_state_b)
      [] OTHER -> Q_HANDLED

\* state_b as a copy of state_a with the wrong target left in: on the timeout it
\* transitions to itself.
state_b_self(ev) ==
    CASE ev.sig = Q_ENTRY_SIG -> Q_HANDLED
      [] ev.sig = Q_EXIT_SIG -> Q_HANDLED
      [] ev.sig = Q_TIMEOUT_SIG -> Q_TRAN(p_state_b)
      [] OTHER -> Q_HANDLED

\* MyFSM::state_b
state_b(ev) ==
    CASE ev.sig = Q_ENTRY_SIG -> Q_HANDLED
      [] ev.sig = Q_EXIT_SIG -> Q_HANDLED
      [] ev.sig = Q_TIMEOUT_SIG -> Q_TRAN(p_state_a)
      [] OTHER -> Q_HANDLED

\* An int that is none of the enumerators of QEventResult.
MaxState == 7

\* typedef int QState: the return type of a handler is int, not the
\* enumeration QEventResult.  A handler returns any int; the model has the
\* three enumerators and two of the values that are none of them, -1 below
\* them and MaxState above.
QState == {0 - 1, Q_EVENT_HANDLED, Q_EVENT_IGNORED, Q_EVENT_TRAN, MaxState}

\* The values a handler of F can assign to m_state with Q_TRAN: a handler of
\* F, or nullptr (Q_TRAN(nullptr) compiles).
F_targets == F_handlers \cup {nullptr}

\* What one call of a handler leaves behind: the value it returns, and
\* whether it assigned m_state (tran) and with what (target; the last
\* assignment of the call counts).  The macros do not tie the two together:
\* "Q_TRAN(t); return Q_HANDLED();" assigns and returns Q_EVENT_HANDLED,
\* "return Q_EVENT_TRAN;" returns the transition value without assigning.
Effect(targets) ==
    [ret : QState, tran : {FALSE}, target : {nullptr}]
        \cup [ret : QState, tran : {TRUE}, target : targets]

\* A handler of the class F is any member function of the handler type: on
\* any event it may return any value of QState and may assign m_state any
\* value of F_targets.  A call that throws is the step handler_throw; calls
\* the handler makes back into init or dispatch of its own machine are the
\* steps handler_dispatch, handler_init, handler_return and handler_unwind.
F_state(ev) == Effect(F_targets)

\* (static_cast<F *>(this)->*h)(ev): the outcomes of invoking handler h.
Handler(h, ev) ==
    CASE h = p_state_a -> {state_a(ev)}
      [] h = p_state_b -> {state_b(ev)}
      [] OTHER -> F_state(ev)

Outcomes == Effect(QStateHandler \cup {nullptr})

(***************************************************************************)
(* State                                                                   *)
(***************************************************************************)
VARIABLES
    m_state,   \* QFsm::m_state, the active handler
    pc,        \* the statement of init or dispatch that runs next, or "idle"
    s,         \* dispatch's local s
    e,         \* dispatch's parameter e
    r,         \* dispatch's local r
    fault,     \* a call through a null handler pointer was made
    op,        \* the operation in progress, or the last one: its name and argument
    pre,       \* m_state when that operation was called
    calls,     \* the handler invocations that operation has made, in order
    inited,    \* init has been called on this machine
    quiet,     \* the dispatches since the last init or transition
    run,       \* the current streak of non-transition dispatches of one signal
    i,         \* main's loop counter: the dispatches main has issued
    k,         \* how many of them carried Q_TIMEOUT_SIG
    cnt,       \* how often each handler has received each signal, in total
    alive,     \* the machine object has not been destroyed
    life,      \* the ENTRY and EXIT events each handler has received so far
    stack,     \* the operations suspended in a handler that called init or dispatch
    this,      \* the machine object whose init or dispatch runs, or ran last
    fsm        \* the m_state member of every machine object

mainv == <<i, k, cnt>>
auxv == <<life, stack, this, fsm>>
vars == <<m_state, pc, s, e, r, fault, op, pre, calls, inited, quiet, run, i, k, cnt,
          alive, life, stack, this, fsm>>

\* The machine objects of class F that the program has constructed.
NumMachines == 2
Machines == 1 .. NumMachines

\* The largest imbalance of ENTRY over EXIT (or the reverse) that is counted.
MaxDiff == 2

\* Nothing received yet, by any handler.
NoLife == [kept |-> TRUE, thrown |-> FALSE, inits |-> 0, reserved |-> FALSE,
           nested |-> FALSE,
           d |-> [h \in QStateHandler |-> 0],
           ph |-> [h \in QStateHandler |-> "new"]]

Min(a, b) == IF a < b THEN a ELSE b

NoRun == [n |-> 0, sig |-> Q_EMPTY_SIG, anchor |-> nullptr, rets |-> {}, hs |-> {}]

\* QFsm::QFsm: m_state(nullptr)
QFsm ==
    /\ m_state = nullptr
    /\ pc = "idle"
    /\ s = nullptr
    /\ e = QEvent(Q_EMPTY_SIG)
    /\ r = Q_EVENT_HANDLED
    /\ fault = FALSE
    /\ op = [name |-> "none", arg |-> 0]
    /\ pre = nullptr
    /\ calls = <<>>
    /\ inited = FALSE
    /\ quiet = [n |-> 0, anchor |-> nullptr, lifecycle |-> FALSE]
    /\ run = NoRun
    /\ i = 0
    /\ k = 0
    /\ cnt = [h \in MyFSM_handlers |-> [sg \in Signals |-> 0]]
    /\ alive = TRUE
    /\ life = NoLife
    /\ stack = <<>>
    /\ this = 1
    /\ fsm = [id \in Machines |-> nullptr]

Init == QFsm

(***************************************************************************)
(* One handler invocation, (static_cast<F *>(this)->*h)(ev), with outcome  *)
(* out.  Q_TRAN stores its target in m_state inside the call.  A call      *)
(* through a null pointer is undefined: no handler runs, fault records     *)
(* it, and the statement that made the call does not return (the process   *)
(* ends on the null jump; pc stays "crashed" and no step is enabled).      *)
(***************************************************************************)
\* Q_TRAN as a plain result: the handler names the target and returns
\* Q_EVENT_TRAN without assigning m_state, leaving the write to the dispatcher.
Invoke_unassigned(h, ev, out) ==
    IF h = nullptr
    THEN /\ out \in Outcomes
         /\ fault' = TRUE
         /\ UNCHANGED <<m_state, calls>>
    ELSE /\ out \in Handler(h, ev)
         /\ UNCHANGED m_state
         /\ calls' = Append(calls, [h |-> h, sig |-> ev.sig, ret |-> out.ret,
                                    was |-> m_state,
                                    now |-> IF out.tran THEN out.target ELSE m_state])
         /\ UNCHANGED fault

Invoke(h, ev, out) ==
    IF h = nullptr
    THEN /\ out = Q_HANDLED
         /\ fault' = TRUE
         /\ UNCHANGED <<m_state, calls>>
    ELSE /\ out \in Handler(h, ev)
         /\ m_state' = IF out.tran THEN out.target ELSE m_state
         /\ calls' = Append(calls, [h |-> h, sig |-> ev.sig, ret |-> out.ret,
                                    was |-> m_state,
                                    now |-> IF out.tran THEN out.target ELSE m_state])
         /\ UNCHANGED fault

(***************************************************************************)
(* QFsm::init                                                              *)
(***************************************************************************)
\* init leaving the running state first: before line 66, the handler that is
\* active (if any) is called with EXIT.
init_exit_old(init_state) ==
    /\ pc = "idle"
    /\ m_state' = init_state
    /\ pc' = "init_67"
    /\ op' = [name |-> "init", arg |-> init_state]
    /\ pre' = m_state
    /\ calls' = IF m_state = nullptr
                THEN <<>>
                ELSE <<[h |-> m_state, sig |-> Q_EXIT_SIG,
                        ret |-> Q_EVENT_HANDLED,
                        was |-> m_state, now |-> m_state]>>
    /\ inited' = TRUE
    /\ quiet' = [n |-> 0, anchor |-> nullptr, lifecycle |-> FALSE]
    /\ run' = NoRun
    /\ s' = nullptr
    /\ e' = QEvent(Q_EMPTY_SIG)
    /\ r' = Q_EVENT_HANDLED
    /\ UNCHANGED fault

\* line 66: m_state = init_state
init(init_state) ==
    /\ pc = "idle"
    /\ m_state' = init_state
    /\ pc' = "init_67"
    /\ op' = [name |-> "init", arg |-> init_state]
    /\ pre' = m_state
    /\ calls' = <<>>
    /\ inited' = TRUE
    /\ quiet' = [n |-> 0, anchor |-> nullptr, lifecycle |-> FALSE]
    /\ run' = NoRun
    /\ s' = nullptr
    /\ e' = QEvent(Q_EMPTY_SIG)
    /\ r' = Q_EVENT_HANDLED
    /\ UNCHANGED fault

\* line 67 indexing the table with Q_ENTRY_SIG: the starting state gets no INIT.
init_67_entry ==
    /\ pc = "init_67"
    /\ \E out \in Outcomes : Invoke(m_state, m_reserved_ev[Q_ENTRY_SIG], out)
    /\ pc' = "init_68"
    /\ UNCHANGED <<s, e, r, op, pre, inited, quiet, run>>

\* line 67 with its value looked at: init goes on to the ENTRY only when the
\* handler returned handled, and returns otherwise.
init_67_checked ==
    /\ pc = "init_67"
    /\ \E out \in Outcomes :
         /\ Invoke(m_state, m_reserved_ev[Q_INIT_SIG], out)
         /\ pc' = IF out.ret = Q_EVENT_HANDLED THEN "init_68" ELSE "idle"
    /\ UNCHANGED <<s, e, r, op, pre, inited, quiet, run>>

\* line 67: (this->*m_state)(m_reserved_ev[Q_INIT_SIG]); the value is dropped
init_67 ==
    /\ pc = "init_67"
    /\ \E out \in Outcomes : Invoke(m_state, m_reserved_ev[Q_INIT_SIG], out)
    /\ pc' = "init_68"
    /\ UNCHANGED <<s, e, r, op, pre, inited, quiet, run>>

\* line 68 calling init_state instead of m_state: the ENTRY goes to the handler
\* init was given, whatever that handler designated during INIT.
init_68_init_state ==
    /\ pc = "init_68"
    /\ \E out \in Outcomes : Invoke(op.arg, m_reserved_ev[Q_ENTRY_SIG], out)
    /\ pc' = "idle"
    /\ quiet' = [n |-> 0, anchor |-> m_state', lifecycle |-> FALSE]
    /\ UNCHANGED <<s, e, r, op, pre, inited, run>>

\* line 68: (this->*m_state)(m_reserved_ev[Q_ENTRY_SIG]); the value is dropped;
\* init returns
init_68 ==
    /\ pc = "init_68"
    /\ \E out \in Outcomes : Invoke(m_state, m_reserved_ev[Q_ENTRY_SIG], out)
    /\ pc' = IF m_state = nullptr THEN "crashed" ELSE "idle"
    /\ quiet' = [n |-> 0, anchor |-> m_state', lifecycle |-> FALSE]
    /\ UNCHANGED <<s, e, r, op, pre, inited, run>>

(***************************************************************************)
(* QFsm::dispatch                                                          *)
(***************************************************************************)
\* What the streak observers hold once a dispatch that delivered its event
\* has returned; lc tells whether it delivered EXIT or ENTRY.  A streak is a
\* run of dispatches whose handler call neither returned Q_EVENT_TRAN nor
\* left another value in m_state; any other dispatch starts afresh.
Broke == r = Q_EVENT_TRAN \/ calls[1].now # calls[1].was

QuietAfter(lc) ==
    IF Broke
    THEN [n |-> 0, anchor |-> m_state', lifecycle |-> FALSE]
    ELSE [quiet EXCEPT !.n = Min(quiet.n + 1, MaxRun),
                       !.lifecycle = quiet.lifecycle \/ lc]

RunAfter ==
    IF Broke
    THEN NoRun
    ELSE IF run.n > 0 /\ run.sig = e.sig
         THEN [run EXCEPT !.n = Min(run.n + 1, MaxRun),
                          !.rets = run.rets \cup {r},
                          !.hs = run.hs \cup {calls[1].h}]
         ELSE [n |-> 1, sig |-> e.sig, anchor |-> pre, rets |-> {r},
               hs |-> {calls[1].h}]

\* dispatch without the check of line 72.
dispatch_unchecked(ev) ==
    /\ pc = "idle"
    /\ op' = [name |-> "dispatch", arg |-> ev.sig]
    /\ pre' = m_state
    /\ calls' = <<>>
    /\ e' = ev
    /\ pc' = "dispatch_75"
    /\ s' = m_state
    /\ UNCHANGED <<m_state, r, fault, inited, quiet, run>>

\* dispatch refusing the reserved signals:
\* if (!m_state || e.sig <= Q_INIT_SIG) return.
dispatch_filtered(ev) ==
    /\ pc = "idle"
    /\ op' = [name |-> "dispatch", arg |-> ev.sig]
    /\ pre' = m_state
    /\ calls' = <<>>
    /\ e' = ev
    /\ IF m_state = nullptr \/ ev.sig <= Q_INIT_SIG
       THEN /\ pc' = "idle"
            /\ UNCHANGED s
       ELSE /\ pc' = "dispatch_75"
            /\ s' = m_state
    /\ UNCHANGED <<m_state, r, fault, inited, quiet, run>>

\* lines 72-74: if (!m_state) return; QStateHandler s = m_state
dispatch(ev) ==
    /\ pc = "idle"
    /\ op' = [name |-> "dispatch", arg |-> ev.sig]
    /\ pre' = m_state
    /\ calls' = <<>>
    /\ e' = ev
    /\ IF m_state = nullptr
       THEN /\ pc' = "idle"
            /\ UNCHANGED s
       ELSE /\ pc' = "dispatch_75"
            /\ s' = m_state
    /\ UNCHANGED <<m_state, r, fault, inited, quiet, run>>

\* line 75: QState r = (this->*s)(e)
dispatch_75 ==
    /\ pc = "dispatch_75"
    /\ \E out \in Outcomes :
          /\ Invoke(s, e, out)
          /\ r' = out.ret
          /\ IF out.ret = Q_EVENT_TRAN \/ m_state' # m_state
             THEN /\ quiet' = [n |-> 0, anchor |-> nullptr, lifecycle |-> FALSE]
                  /\ run' = NoRun
             ELSE UNCHANGED <<quiet, run>>
    /\ pc' = "dispatch_76"
    /\ UNCHANGED <<s, e, op, pre, inited>>

\* line 76 with a transition to the source itself short-cut:
\* if (r == Q_EVENT_TRAN && m_state != s).
dispatch_76_skip_self ==
    /\ pc = "dispatch_76"
    /\ UNCHANGED <<m_state, s, e, r, fault, op, pre, calls, inited>>
    /\ IF r = Q_EVENT_TRAN /\ m_state # s
       THEN /\ pc' = "dispatch_77"
            /\ UNCHANGED <<quiet, run>>
       ELSE /\ pc' = "idle"
            /\ quiet' = QuietAfter(FALSE)
            /\ run' = RunAfter

\* line 76 without the test: EXIT and ENTRY follow every delivery.
dispatch_76_always ==
    /\ pc = "dispatch_76"
    /\ pc' = "dispatch_77"
    /\ UNCHANGED <<quiet, run>>
    /\ UNCHANGED <<m_state, s, e, r, fault, op, pre, calls, inited>>

\* line 76 testing the wrong enumerator: if (r != Q_EVENT_IGNORED).
dispatch_76_not_ignored ==
    /\ pc = "dispatch_76"
    /\ UNCHANGED <<m_state, s, e, r, fault, op, pre, calls, inited>>
    /\ IF r # Q_EVENT_IGNORED
       THEN /\ pc' = "dispatch_77"
            /\ UNCHANGED <<quiet, run>>
       ELSE /\ pc' = "idle"
            /\ quiet' = QuietAfter(FALSE)
            /\ run' = RunAfter

\* line 76 deciding from the slot instead of the result: if (m_state != s).
dispatch_76_state_changed ==
    /\ pc = "dispatch_76"
    /\ UNCHANGED <<m_state, s, e, r, fault, op, pre, calls, inited>>
    /\ IF m_state # s
       THEN /\ pc' = "dispatch_77"
            /\ UNCHANGED <<quiet, run>>
       ELSE /\ pc' = "idle"
            /\ quiet' = QuietAfter(FALSE)
            /\ run' = RunAfter

\* line 76 taking an ignored event for the end of the machine: the slot is
\* cleared before dispatch returns.
dispatch_76_stop_ignored ==
    /\ pc = "dispatch_76"
    /\ UNCHANGED <<s, e, r, fault, op, pre, calls, inited>>
    /\ IF r = Q_EVENT_TRAN
       THEN /\ pc' = "dispatch_77"
            /\ UNCHANGED <<m_state, quiet, run>>
       ELSE /\ pc' = "idle"
            /\ m_state' = IF r = Q_EVENT_IGNORED THEN nullptr ELSE m_state
            /\ quiet' = QuietAfter(FALSE)
            /\ run' = RunAfter

\* line 76: if (r == Q_EVENT_TRAN); otherwise dispatch returns
dispatch_76 ==
    /\ pc = "dispatch_76"
    /\ UNCHANGED <<m_state, s, e, r, fault, op, pre, calls, inited>>
    /\ IF r = Q_EVENT_TRAN
       THEN /\ pc' = "dispatch_77"
            /\ UNCHANGED <<quiet, run>>
       ELSE /\ pc' = "idle"
            /\ quiet' = QuietAfter(FALSE)
            /\ run' = RunAfter

\* line 77 left out: the source gets no EXIT.
dispatch_77_skip ==
    /\ pc = "dispatch_77"
    /\ pc' = "dispatch_78"
    /\ UNCHANGED <<m_state, calls, fault>>
    /\ UNCHANGED <<s, e, r, op, pre, inited, quiet, run>>

\* line 77 calling m_state instead of s: the EXIT goes to the target.
dispatch_77_target ==
    /\ pc = "dispatch_77"
    /\ \E out \in Outcomes : Invoke(m_state, m_reserved_ev[Q_EXIT_SIG], out)
    /\ pc' = "dispatch_78"
    /\ UNCHANGED <<s, e, r, op, pre, inited, quiet, run>>

\* line 77: (this->*s)(m_reserved_ev[Q_EXIT_SIG]); the value is dropped
dispatch_77 ==
    /\ pc = "dispatch_77"
    /\ \E out \in Outcomes : Invoke(s, m_reserved_ev[Q_EXIT_SIG], out)
    /\ pc' = "dispatch_78"
    /\ UNCHANGED <<s, e, r, op, pre, inited, quiet, run>>

\* line 78 calling s instead of m_state: the ENTRY goes to the source.
dispatch_78_source ==
    /\ pc = "dispatch_78"
    /\ \E out \in Outcomes : Invoke(s, m_reserved_ev[Q_ENTRY_SIG], out)
    /\ pc' = "idle"
    /\ quiet' = QuietAfter(TRUE)
    /\ run' = RunAfter
    /\ UNCHANGED <<s, e, r, op, pre, inited>>

\* line 78 left for later: dispatch returns before the ENTRY is delivered.
dispatch_78_deferred ==
    /\ pc = "dispatch_78"
    /\ UNCHANGED <<m_state, calls, fault>>
    /\ pc' = "idle"
    /\ quiet' = QuietAfter(TRUE)
    /\ run' = RunAfter
    /\ UNCHANGED <<s, e, r, op, pre, inited>>

\* line 78 acting on the value of the ENTRY call: when it is the transition
\* result, the new active handler is given its ENTRY before dispatch returns.
dispatch_78_chained ==
    /\ pc = "dispatch_78"
    /\ \E out \in Outcomes :
          /\ Invoke(m_state, m_reserved_ev[Q_ENTRY_SIG], out)
          /\ IF out.ret = Q_EVENT_TRAN
             THEN /\ pc' = "dispatch_78"
                  /\ UNCHANGED <<quiet, run>>
             ELSE /\ pc' = "idle"
                  /\ quiet' = QuietAfter(TRUE)
                  /\ run' = RunAfter
    /\ UNCHANGED <<s, e, r, op, pre, inited>>

\* line 78 entering the target that the call with the event recorded, kept
\* aside before the EXIT call, instead of reading m_state anew.
dispatch_78_first_target ==
    /\ pc = "dispatch_78"
    /\ \E out \in Outcomes : Invoke(calls[1].now, m_reserved_ev[Q_ENTRY_SIG], out)
    /\ pc' = "idle"
    /\ quiet' = QuietAfter(TRUE)
    /\ run' = RunAfter
    /\ UNCHANGED <<s, e, r, op, pre, inited>>

\* line 78 protecting the entered state: the handler that receives the ENTRY
\* is written back to m_state after the call, undoing a Q_TRAN made in it.
dispatch_78_restore ==
    /\ pc = "dispatch_78"
    /\ \E out \in Outcomes :
          IF m_state = nullptr
          THEN /\ fault' = TRUE
               /\ UNCHANGED <<m_state, calls>>
          ELSE /\ out \in Handler(m_state, m_reserved_ev[Q_ENTRY_SIG])
               /\ calls' = Append(calls, [h |-> m_state, sig |-> Q_ENTRY_SIG,
                                          ret |-> out.ret, was |-> m_state,
                                          now |-> IF out.tran THEN out.target
                                                  ELSE m_state])
               /\ UNCHANGED <<m_state, fault>>
    /\ pc' = "idle"
    /\ quiet' = QuietAfter(TRUE)
    /\ run' = RunAfter
    /\ UNCHANGED <<s, e, r, op, pre, inited>>

\* line 78 with the wrong index into the table: the new state is called with
\* m_reserved_ev[Q_INIT_SIG], as the starting state is in init.
dispatch_78_init ==
    /\ pc = "dispatch_78"
    /\ \E out \in Outcomes : Invoke(m_state, m_reserved_ev[Q_INIT_SIG], out)
    /\ pc' = "idle"
    /\ quiet' = QuietAfter(TRUE)
    /\ run' = RunAfter
    /\ UNCHANGED <<s, e, r, op, pre, inited>>

\* line 78: (this->*m_state)(m_reserved_ev[Q_ENTRY_SIG]); the value is
\* dropped; dispatch returns
dispatch_78 ==
    /\ pc = "dispatch_78"
    /\ \E out \in Outcomes : Invoke(m_state, m_reserved_ev[Q_ENTRY_SIG], out)
    /\ pc' = IF m_state = nullptr THEN "crashed" ELSE "idle"
    /\ quiet' = QuietAfter(TRUE)
    /\ run' = RunAfter
    /\ UNCHANGED <<s, e, r, op, pre, inited>>

(***************************************************************************)
(* A handler call that does not return.  qfsm.hpp has no try and no catch: *)
(* an exception thrown by a handler leaves init or dispatch at the line of *)
(* the call.  m_state is as the handler left it, the statements after the  *)
(* call do not run (r is not assigned, no EXIT and no ENTRY follow), and   *)
(* the call is not logged: calls lists the calls that returned.  The       *)
(* exception reaches the caller of init or dispatch, who goes on with the  *)
(* machine; op.name "thrown" tells that the operation did not return.      *)
(***************************************************************************)
\* The lines of init and dispatch that call a handler.
CallSites == {"init_67", "init_68", "dispatch_75", "dispatch_77", "dispatch_78"}

\* The handler that the line about to run calls: s in lines 75 and 77,
\* m_state in lines 67, 68 and 78.
Callee == IF pc \in {"dispatch_75", "dispatch_77"} THEN s ELSE m_state

\* The signal of the event that the line about to run passes.
Passed ==
    CASE pc = "init_67" -> Q_INIT_SIG
      [] pc = "dispatch_75" -> e.sig
      [] pc = "dispatch_77" -> Q_EXIT_SIG
      [] OTHER -> Q_ENTRY_SIG

\* The line at which the operation goes on when the handler call of line p
\* has returned; after lines 68 and 78 it returns.
After(p) ==
    CASE p = "init_67" -> "init_68"
      [] p = "dispatch_75" -> "dispatch_76"
      [] p = "dispatch_77" -> "dispatch_78"
      [] OTHER -> "idle"

\* What a handler of F that throws has done to m_state before: nothing, or
\* an assignment (Q_TRAN) of any value of F_targets.
F_state_throw(ev) ==
    [tran : {FALSE}, target : {nullptr}] \cup [tran : {TRUE}, target : F_targets]

\* The ways in which a call of handler h does not return.  state_a and
\* state_b have no throw expression and call nothing that throws.
Throws(h, ev) == IF h \in F_handlers THEN F_state_throw(ev) ELSE {}

\* The handler called by the line about to run throws.
handler_throw ==
    /\ pc \in CallSites
    /\ Callee # nullptr
    /\ \E out \in Throws(Callee, QEvent(Passed)) :
          m_state' = IF out.tran THEN out.target ELSE m_state
    /\ pc' = "idle"
    /\ op' = [name |-> "thrown", arg |-> op.arg]
    /\ quiet' = [n |-> 0, anchor |-> m_state', lifecycle |-> FALSE]
    /\ run' = NoRun
    /\ UNCHANGED <<s, e, r, fault, pre, calls, inited>>

(***************************************************************************)
(* The end of the machine's lifetime.  QFsm declares no destructor: the    *)
(* implicit one runs no code of the class, and calls no handler.           *)
(***************************************************************************)
\* A destructor that lets the active state leave: it delivers EXIT to m_state.
QFsm_destroy_exit ==
    /\ pc = "idle"
    /\ alive
    /\ alive' = FALSE
    /\ \E out \in Outcomes : Invoke(m_state, m_reserved_ev[Q_EXIT_SIG], out)
    /\ UNCHANGED <<pc, s, e, r, op, pre, inited, quiet, run>>

QFsm_destroy ==
    /\ pc = "idle"
    /\ alive
    /\ alive' = FALSE
    /\ UNCHANGED <<m_state, pc, s, e, r, fault, op, pre, calls, inited, quiet, run>>

(***************************************************************************)
(* The class F driven by an arbitrary caller.                              *)
(***************************************************************************)
CallInit == alive /\ \E h \in F_handlers : init(h)
CallDispatch == alive /\ \E sig \in Signals : dispatch(QEvent(sig))

Next ==
    \/ CallInit /\ UNCHANGED <<mainv, alive, auxv>>
    \/ CallDispatch /\ UNCHANGED <<mainv, alive, auxv>>
    \/ init_67 /\ UNCHANGED <<mainv, alive, auxv>>
    \/ init_68 /\ UNCHANGED <<mainv, alive, auxv>>
    \/ dispatch_75 /\ UNCHANGED <<mainv, alive, auxv>>
    \/ dispatch_76 /\ UNCHANGED <<mainv, alive, auxv>>
    \/ dispatch_77 /\ UNCHANGED <<mainv, alive, auxv>>
    \/ dispatch_78 /\ UNCHANGED <<mainv, alive, auxv>>
    \/ handler_throw /\ UNCHANGED <<mainv, alive, auxv>>
    \/ QFsm_destroy /\ UNCHANGED <<mainv, auxv>>

\* init and dispatch run to completion on the caller's thread: a call that has
\* started takes its next step.
SpecFair == Init /\ [][Next]_vars /\ WF_vars(Next)

(***************************************************************************)
(* The class MyFSM driven by an arbitrary caller.                          *)
(***************************************************************************)
CallInitMyFSM == alive /\ \E h \in MyFSM_handlers : init(h)

\* state_a and state_b are public member functions of MyFSM: the caller can
\* call one itself, fsm.state_a(ev), outside init and dispatch.  The call
\* runs the handler on the machine as a call from dispatch does (Q_TRAN
\* assigns m_state), and nothing follows it: no EXIT, no ENTRY.
call_handler(h, ev) ==
    /\ pc = "idle"
    /\ op' = [name |-> "handler", arg |-> ev.sig]
    /\ pre' = m_state
    /\ \E out \in Handler(h, ev) :
          /\ m_state' = IF out.tran THEN out.target ELSE m_state
          /\ calls' = <<[h |-> h, sig |-> ev.sig, ret |-> out.ret,
                         was |-> m_state, now |-> m_state']>>
    /\ quiet' = [n |-> 0, anchor |-> m_state', lifecycle |-> FALSE]
    /\ run' = NoRun
    /\ UNCHANGED <<pc, s, e, r, fault, inited>>

CallHandlerMyFSM ==
    alive /\ \E h \in MyFSM_handlers : \E sig \in Signals : call_handler(h, QEvent(sig))

NextMyFSM ==
    \/ CallInitMyFSM /\ UNCHANGED <<mainv, alive, auxv>>
    \/ CallHandlerMyFSM /\ UNCHANGED <<mainv, alive, auxv>>
    \/ CallDispatch /\ UNCHANGED <<mainv, alive, auxv>>
    \/ init_67 /\ UNCHANGED <<mainv, alive, auxv>>
    \/ init_68 /\ UNCHANGED <<mainv, alive, auxv>>
    \/ dispatch_75 /\ UNCHANGED <<mainv, alive, auxv>>
    \/ dispatch_76 /\ UNCHANGED <<mainv, alive, auxv>>
    \/ dispatch_77 /\ UNCHANGED <<mainv, alive, auxv>>
    \/ dispatch_78 /\ UNCHANGED <<mainv, alive, auxv>>
    \/ QFsm_destroy /\ UNCHANGED <<mainv, auxv>>

SpecMyFSM == Init /\ [][NextMyFSM]_vars

Spec == Init /\ [][Next]_vars

(***************************************************************************)
(* main(): MyFSM fsm; fsm.init(&MyFSM::state_a); then the loop of          *)
(* dispatches.  main dispatches my_event[0]; the model lets the loop       *)
(* dispatch other events as well: a reserved signal and an application     *)
(* signal that no state of MyFSM recognises.                               *)
(***************************************************************************)
MainSignals == {Q_EXIT_SIG, my_event[0].sig, MaxSig}

\* cnt follows the invocations logged in calls.
Count ==
    cnt' = IF Len(calls') = Len(calls) + 1
           THEN LET c == calls'[Len(calls')]
                IN  [cnt EXCEPT ![c.h][c.sig] = @ + 1]
           ELSE cnt

\* line 53: fsm.init(&MyFSM::state_a)
main_53 ==
    /\ op.name = "none"
    /\ alive
    /\ init(p_state_a)
    /\ UNCHANGED <<mainv, alive, auxv>>

\* lines 55-57: for (int i = 0; i < 10; i++) fsm.dispatch(...)
main_56 ==
    /\ op.name # "none"
    /\ i < MainLoopCount
    /\ \E sig \in MainSignals : /\ dispatch(QEvent(sig))
                                /\ k' = IF sig = my_event[0].sig THEN k + 1 ELSE k
    /\ i' = i + 1
    /\ UNCHANGED <<cnt, alive, auxv>>

\* line 59: return 0, after the loop; fsm goes out of scope
main_59 ==
    /\ op.name # "none"
    /\ i = MainLoopCount
    /\ QFsm_destroy
    /\ Count
    /\ UNCHANGED <<i, k, auxv>>

NextMain ==
    \/ main_53
    \/ main_56
    \/ main_59
    \/ init_67 /\ Count /\ UNCHANGED <<i, k, alive, auxv>>
    \/ init_68 /\ Count /\ UNCHANGED <<i, k, alive, auxv>>
    \/ dispatch_75 /\ Count /\ UNCHANGED <<i, k, alive, auxv>>
    \/ dispatch_76 /\ Count /\ UNCHANGED <<i, k, alive, auxv>>
    \/ dispatch_77 /\ Count /\ UNCHANGED <<i, k, alive, auxv>>
    \/ dispatch_78 /\ Count /\ UNCHANGED <<i, k, alive, auxv>>

SpecMain == Init /\ [][NextMain]_vars

(***************************************************************************)
(* Properties                                                              *)
(***************************************************************************)
\* The handler and the signal of each invocation in cs, in order.
Delivered(cs) == [j \in 1 .. Len(cs) |-> <<cs[j].h, cs[j].sig>>]

\* The operation named has returned and nothing has been called since.
Returned(name) == pc = "idle" /\ op.name = name

\* A dispatch on a running machine has returned.
DispatchDone == Returned("dispatch") /\ pre # nullptr

\* The step is a handler call that does not return: the handler throws, and
\* the operation is left at the line of the call.
Thrown == pc \in CallSites /\ pc' = "idle" /\ op'.name = "thrown" /\ calls' = calls

\* The invocation c left m_state as it found it.
Kept(c) == c.now = c.was

\* The invocation c kept the handler contract for a synthetic signal: it did
\* not return the transition result and did not designate another handler.
Handled(c) == c.ret # Q_EVENT_TRAN /\ Kept(c)

\* No invocation after the first one of the operation requested a transition:
\* the handlers kept to returning handled (or ignored) on the synthetic
\* EXIT and ENTRY and designated no handler, as the handler contract asks.
LifecycleHandled == \A j \in 2 .. Len(calls) : Handled(calls[j])

\* C1: a dispatch in which the active handler A requests a transition to a
\* different handler B (and no handler requests a transition while it
\* processes the EXIT or the ENTRY) invokes exactly A with the event, A with
\* EXIT, B with ENTRY, in this order, and returns with B active.
C1_TransitionSequence ==
    (/\ DispatchDone
     /\ Len(calls) >= 1
     /\ calls[1].ret = Q_EVENT_TRAN
     /\ calls[1].now # pre
     /\ LifecycleHandled)
    => /\ Delivered(calls) = << <<pre, op.arg>>, <<pre, Q_EXIT_SIG>>,
                                <<calls[1].now, Q_ENTRY_SIG>> >>
       /\ m_state = calls[1].now

C1_Witness ==
    /\ DispatchDone
    /\ Len(calls) = 3
    /\ calls[1].ret = Q_EVENT_TRAN
    /\ calls[1].now # pre
    /\ LifecycleHandled
    /\ op.arg = Q_TIMEOUT_SIG
    /\ m_state # pre

\* C2: after init(H0), with H0 returning handled or ignored on INIT and on
\* ENTRY and designating no handler in them, the active handler is H0 and
\* init has invoked exactly H0 with INIT and then H0 with ENTRY.
C2_InitSequence ==
    (/\ Returned("init")
     /\ \A j \in 1 .. Len(calls) : Handled(calls[j]))
    => /\ Delivered(calls) = << <<op.arg, Q_INIT_SIG>>, <<op.arg, Q_ENTRY_SIG>> >>
       /\ m_state = op.arg

C2_Witness ==
    /\ Returned("init")
    /\ Len(calls) = 2
    /\ \A j \in 1 .. Len(calls) : Handled(calls[j])
    /\ m_state = op.arg
    /\ m_state \in F_handlers

\* The signals the handler h has received during the operation, in order.
ReceivedBy(h) == [j \in 1 .. Len(SelectSeq(calls, LAMBDA c : c.h = h)) |->
                    SelectSeq(calls, LAMBDA c : c.h = h)[j].sig]

\* C3 as claimed: after init, the handler that is then active has received
\* exactly INIT then ENTRY, also when the starting handler designated a
\* different handler while it processed INIT (the ENTRY call keeping to the
\* contract).
C3_ActiveSawInitEntry ==
    (/\ Returned("init")
     /\ Len(calls) = 2
     /\ calls[1].now # nullptr
     /\ Handled(calls[2]))
    => ReceivedBy(m_state) = <<Q_INIT_SIG, Q_ENTRY_SIG>>

\* C3 amended: an init that returns has made exactly two calls, INIT to the
\* handler it was given and then ENTRY to the handler that is active when the
\* INIT call has returned; a handler that keeps itself active during INIT
\* receives INIT then ENTRY, and a different handler designated during INIT
\* receives the ENTRY and no INIT.
C3_InitThenEntryOfDesignated ==
    Returned("init")
    => /\ Delivered(calls) = << <<op.arg, Q_INIT_SIG>>,
                                <<calls[1].now, Q_ENTRY_SIG>> >>
       /\ m_state = calls[2].now
       /\ calls[1].now = op.arg
            => ReceivedBy(op.arg) = <<Q_INIT_SIG, Q_ENTRY_SIG>>
       /\ calls[1].now # op.arg
            => /\ ReceivedBy(calls[1].now) = <<Q_ENTRY_SIG>>
               /\ ReceivedBy(op.arg) = <<Q_INIT_SIG>>

C3_Witness ==
    /\ Returned("init")
    /\ Len(calls) = 2
    /\ calls[1].ret = Q_EVENT_TRAN
    /\ calls[1].now # op.arg
    /\ Handled(calls[2])
    /\ m_state = calls[1].now
    /\ ReceivedBy(m_state) = <<Q_ENTRY_SIG>>

\* C4: a dispatch in which the active handler A requests a transition to
\* itself (and handles the EXIT and the ENTRY without requesting another)
\* invokes exactly A with the event, A with EXIT, A with ENTRY, in this
\* order, and returns with A active.
C4_SelfTransition ==
    (/\ DispatchDone
     /\ Len(calls) >= 1
     /\ calls[1].ret = Q_EVENT_TRAN
     /\ calls[1].now = pre
     /\ LifecycleHandled)
    => /\ Delivered(calls) = << <<pre, op.arg>>, <<pre, Q_EXIT_SIG>>,
                                <<pre, Q_ENTRY_SIG>> >>
       /\ m_state = pre

C4_Witness ==
    /\ DispatchDone
    /\ Len(calls) = 3
    /\ calls[1].ret = Q_EVENT_TRAN
    /\ calls[1].now = pre
    /\ LifecycleHandled
    /\ m_state = pre

\* C5: a dispatch whose handler call returns handled or ignored invokes only
\* that one call, delivers no EXIT and no ENTRY, and leaves the active
\* handler as the call left it: as it was, when the handler requested no
\* transition (designated no handler); and after any number of such
\* dispatches in a row the active handler is the one that was active before
\* the first of them, no EXIT and no ENTRY having been delivered in between.
C5_NoTransitionNoChange ==
    /\ (DispatchDone /\ r # Q_EVENT_TRAN)
         => /\ Delivered(calls) = << <<pre, op.arg>> >>
            /\ m_state = calls[1].now
            /\ Kept(calls[1]) => m_state = pre
    /\ (pc = "idle" /\ quiet.n >= 1)
         => /\ m_state = quiet.anchor
            /\ ~quiet.lifecycle

C5_Witness ==
    /\ DispatchDone
    /\ r = Q_EVENT_IGNORED
    /\ quiet.n = MaxRun
    /\ Len(calls) = 1
    /\ m_state = quiet.anchor

\* C6: as long as init has not been called, dispatch invokes no handler,
\* makes no call through the null pointer, returns at once and leaves the
\* active handler unset.
C6_DispatchBeforeInit ==
    ~inited => /\ m_state = nullptr
               /\ calls = <<>>
               /\ ~fault
               /\ pc = "idle"

C6_Witness ==
    /\ ~inited
    /\ op = [name |-> "dispatch", arg |-> Q_TIMEOUT_SIG]
    /\ m_state = nullptr

\* Every dispatch main has issued so far carried the timeout, and the last of
\* them has returned.
OnlyTimeouts == pc = "idle" /\ op.name = "dispatch" /\ k = i /\ i >= 1

\* C7 as claimed: after the n-th of the timeouts the active state is the n-th
\* of A,B,A,B,A,B,A,B,A,B.
C7_EndsInB ==
    OnlyTimeouts => m_state = IF i % 2 = 1 THEN p_state_a ELSE p_state_b

\* C7 amended: after the n-th of the timeouts the active state is the n-th of
\* B,A,B,A,B,A,B,A,B,A: state_b after an odd number of them, state_a after an
\* even number, state_a after the tenth.
C7_Alternates ==
    OnlyTimeouts => m_state = IF i % 2 = 1 THEN p_state_b ELSE p_state_a

C7_Witness ==
    /\ OnlyTimeouts
    /\ i = MainLoopCount
    /\ m_state = p_state_a

\* How often signal sg has been delivered, to either state.
Total(sg) == cnt[p_state_a][sg] + cnt[p_state_b][sg]

\* C8: in the run of init(state_a) and timeouts only, init invokes state_a
\* with INIT and with ENTRY; every dispatch invokes the active state with the
\* timeout, the same state with EXIT and the other state with ENTRY; so after
\* n dispatches there have been n timeouts, n EXITs, n + 1 ENTRYs and one INIT
\* (to state_a), and no other invocation.
C8_CallCounts ==
    /\ (Returned("init") /\ i = 0)
         => /\ Delivered(calls) = << <<p_state_a, Q_INIT_SIG>>,
                                     <<p_state_a, Q_ENTRY_SIG>> >>
            /\ cnt[p_state_a][Q_INIT_SIG] = 1
            /\ cnt[p_state_a][Q_ENTRY_SIG] = 1
    /\ OnlyTimeouts
         => /\ Delivered(calls) = << <<pre, Q_TIMEOUT_SIG>>, <<pre, Q_EXIT_SIG>>,
                                     <<m_state, Q_ENTRY_SIG>> >>
            /\ m_state # pre
            /\ Total(Q_TIMEOUT_SIG) = i
            /\ Total(Q_EXIT_SIG) = i
            /\ Total(Q_ENTRY_SIG) = i + 1
            /\ cnt[p_state_a][Q_INIT_SIG] = 1
            /\ cnt[p_state_b][Q_INIT_SIG] = 0
            /\ cnt[p_state_a][Q_ENTRY_SIG] = 1 + (i \div 2)
            /\ \A sg \in Signals \ {Q_TIMEOUT_SIG, Q_EXIT_SIG, Q_ENTRY_SIG, Q_INIT_SIG} :
                 Total(sg) = 0

C8_Witness ==
    /\ OnlyTimeouts
    /\ i = MainLoopCount
    /\ Total(Q_TIMEOUT_SIG) = 10
    /\ Total(Q_EXIT_SIG) = 10
    /\ Total(Q_ENTRY_SIG) = 11
    /\ Total(Q_INIT_SIG) = 1

\* C9: while the same signal is dispatched again and again and the active
\* state does not request a transition on it, every one of the dispatches
\* delivers it once, to the same state, with the same result (handled or
\* ignored), and the active state stays what it was before the first.
C9_RepeatedDispatch ==
    (pc = "idle" /\ run.n >= 1)
    => /\ run.hs = {run.anchor}
       /\ m_state = run.anchor
       /\ Cardinality(run.rets) = 1
       /\ run.rets \subseteq {Q_EVENT_HANDLED, Q_EVENT_IGNORED}
       /\ Delivered(calls) = << <<run.anchor, run.sig>> >>

C9_Witness ==
    /\ pc = "idle"
    /\ run.n = MaxRun
    /\ run.hs = {m_state}
    /\ i >= MaxRun

\* C10: when a dispatch on a running machine returns, every invocation it
\* causes has been made (the event, and EXIT and ENTRY when the handler
\* returned the transition result), and no handler is invoked while no init
\* or dispatch is in progress.
C10_NothingDeferred ==
    /\ [](DispatchDone =>
            /\ Len(calls) = IF calls[1].ret = Q_EVENT_TRAN THEN 3 ELSE 1
            /\ calls[1].sig = op.arg
            /\ Len(calls) = 3 => /\ calls[2].sig = Q_EXIT_SIG
                                 /\ calls[3].sig = Q_ENTRY_SIG)
    /\ [][pc = "idle" => /\ calls' = <<>> \/ calls' = calls
                         /\ pc' = "idle" => m_state' = m_state]_vars

C10_Witness ==
    /\ DispatchDone
    /\ Len(calls) = 3
    /\ calls[3].sig = Q_ENTRY_SIG

\* C11: the reserved signals are EMPTY = 0, ENTRY = 1, EXIT = 2, INIT = 3;
\* entry i of the table of reserved events carries signal i, so the events
\* init and dispatch deliver on their own carry 3 then 1 (init) and 2 then 1
\* (the transition of a dispatch); and TIMEOUT is INIT + 1 = 4, outside the
\* reserved range.
C11_ReservedSignals ==
    /\ <<Q_EMPTY_SIG, Q_ENTRY_SIG, Q_EXIT_SIG, Q_INIT_SIG>> = <<0, 1, 2, 3>>
    /\ \A n \in 0 .. 3 : m_reserved_ev[n].sig = n
    /\ Q_TIMEOUT_SIG = Q_INIT_SIG + 1
    /\ Q_TIMEOUT_SIG = 4
    /\ my_event[0].sig \notin 0 .. 3
    /\ (Returned("init") /\ Len(calls) = 2)
         => calls[1].sig = 3 /\ calls[2].sig = 1
    /\ (DispatchDone /\ Len(calls) = 3)
         => calls[2].sig = 2 /\ calls[3].sig = 1

C11_Witness ==
    /\ DispatchDone
    /\ op.arg = 4
    /\ Len(calls) = 3
    /\ <<calls[1].sig, calls[2].sig, calls[3].sig>> = <<4, 2, 1>>
    /\ pre = p_state_b

\* C12: dispatch does not look at the signal: an event that carries a reserved
\* signal (0..3) is delivered to the active state like any other, without a
\* fault; state_a and state_b handle it as they handle the dispatcher's own
\* signal, so a dispatched EXIT (or EMPTY, ENTRY, INIT) is that one call,
\* returns handled, and no transition takes place.
C12_ReservedNotFiltered ==
    (DispatchDone /\ op.arg \in 0 .. 3)
    => /\ Delivered(calls) = << <<pre, op.arg>> >>
       /\ calls[1].ret = Q_EVENT_HANDLED
       /\ m_state = pre
       /\ ~fault

C12_Witness ==
    /\ DispatchDone
    /\ op.arg = Q_EXIT_SIG
    /\ pre = p_state_a
    /\ Delivered(calls) = << <<p_state_a, Q_EXIT_SIG>> >>
    /\ m_state = p_state_a

\* C13: init installs a handler of F, and from then on the active handler
\* is unset only by a handler invocation that designates nullptr (one that
\* returns, or one that throws after the assignment), and a call through
\* the null pointer is made only once the slot is unset: with handlers that
\* designate handlers of F only, the machine that has been initialised stays
\* running whatever init and dispatch calls follow, at every point inside
\* them.
C13_StaysRunning ==
    [][/\ (pc = "idle" /\ pc' = "init_67") => m_state' \in F_handlers
       /\ (m_state # nullptr /\ m_state' = nullptr)
            => \/ /\ Len(calls') = Len(calls) + 1
                  /\ calls'[Len(calls')].was = m_state
                  /\ calls'[Len(calls')].now = nullptr
               \/ Thrown
       /\ (fault' /\ ~fault) => (inited /\ m_state = nullptr)]_vars

C13_Witness ==
    /\ inited
    /\ DispatchDone
    /\ Len(calls) = 3
    /\ calls[2].ret = Q_EVENT_TRAN
    /\ calls[3].ret = Q_EVENT_TRAN
    /\ quiet.n = 0
    /\ m_state \in F_handlers

\* C14: the destruction of the machine invokes no handler: once main has
\* returned, the log still ends with the last call of the last dispatch, and
\* in main's own run (timeouts only) that call is the ENTRY of state_a, which
\* has then received one ENTRY more than EXITs while state_b has received as
\* many of the one as of the other.
C14_NoExitOnDestroy ==
    ~alive
    => /\ op.name = "dispatch"
       /\ Len(calls) = IF r = Q_EVENT_TRAN THEN 3 ELSE 1
       /\ calls[Len(calls)].sig = IF r = Q_EVENT_TRAN THEN Q_ENTRY_SIG ELSE op.arg
       /\ k = i
            => /\ Delivered(calls) = << <<p_state_b, Q_TIMEOUT_SIG>>,
                                        <<p_state_b, Q_EXIT_SIG>>,
                                        <<p_state_a, Q_ENTRY_SIG>> >>
               /\ m_state = p_state_a
               /\ cnt[p_state_a][Q_ENTRY_SIG] = cnt[p_state_a][Q_EXIT_SIG] + 1
               /\ cnt[p_state_b][Q_ENTRY_SIG] = cnt[p_state_b][Q_EXIT_SIG]
               /\ Total(Q_EXIT_SIG) = MainLoopCount

C14_Witness ==
    /\ ~alive
    /\ k = i
    /\ i = MainLoopCount
    /\ m_state = p_state_a
    /\ cnt[p_state_a][Q_ENTRY_SIG] = 6
    /\ cnt[p_state_a][Q_EXIT_SIG] = 5

\* C15: whatever the handler returns for INIT (handled, ignored, the
\* transition result or any other int), init goes on to deliver exactly one
\* ENTRY and returns; it makes these two calls and never delivers an EXIT.
C15_InitIgnoresResult ==
    /\ pc = "init_68" => Len(calls) = 1 /\ calls[1].sig = Q_INIT_SIG
    /\ Returned("init")
         => /\ Len(calls) = 2
            /\ calls[1].sig = Q_INIT_SIG
            /\ calls[1].ret \in QState
            /\ calls[2].sig = Q_ENTRY_SIG
            /\ \A j \in 1 .. Len(calls) : calls[j].sig # Q_EXIT_SIG

C15_Witness ==
    /\ Returned("init")
    /\ calls[1].ret = Q_EVENT_IGNORED
    /\ calls[2].sig = Q_ENTRY_SIG
    /\ calls[2].ret = Q_EVENT_TRAN
    /\ pre # nullptr

\* C16: dispatch goes on to EXIT and ENTRY exactly when the call with the
\* dispatched event returned the transition result, which for a handler
\* that returns the value of Q_TRAN is exactly when it recorded an active
\* handler: after handled or ignored (or any value that is not the
\* transition result) the dispatch is that one call and the
\* slot is as the call left it (unchanged, when the handler recorded
\* nothing); after the transition result EXIT and ENTRY follow, also when
\* the handler recorded is the source itself.
C16_DecidedByResult ==
    /\ pc \in {"dispatch_77", "dispatch_78"} => r = Q_EVENT_TRAN
    /\ DispatchDone
         => /\ r = calls[1].ret
            /\ (Len(calls) > 1) <=> (calls[1].ret = Q_EVENT_TRAN)
            /\ calls[1].ret # Q_EVENT_TRAN
                 => /\ Len(calls) = 1
                    /\ m_state = calls[1].now
                    /\ Kept(calls[1]) => m_state = pre
            /\ calls[1].ret = Q_EVENT_TRAN
                 => /\ Len(calls) = 3
                    /\ calls[2].sig = Q_EXIT_SIG
                    /\ calls[3].sig = Q_ENTRY_SIG

C16_Witness ==
    /\ DispatchDone
    /\ op.arg = Q_EMPTY_SIG
    /\ calls[1].ret = Q_EVENT_TRAN
    /\ calls[1].now = pre
    /\ Len(calls) = 3

\* C17: the first call of a dispatch, and no other, passes the event given
\* to dispatch, and it goes to the handler that was active when dispatch was
\* called (the source); the calls that follow pass the synthetic events only:
\* the second is EXIT to the source, the third is ENTRY.  A handler other
\* than the source receives at most that one ENTRY, and when the source
\* recorded a different target (and did not record another one during EXIT)
\* the target receives exactly ENTRY: neither the event nor the EXIT.
C17_EventToSourceOnce ==
    DispatchDone
      => /\ Len(calls) >= 1
         /\ calls[1].h = pre
         /\ calls[1].sig = op.arg
         /\ \A j \in 2 .. Len(calls) :
               calls[j].sig = (IF j = 2 THEN Q_EXIT_SIG ELSE Q_ENTRY_SIG)
         /\ op.arg \notin {Q_EXIT_SIG, Q_ENTRY_SIG}
              => Len(SelectSeq(calls, LAMBDA c : c.sig = op.arg)) = 1
         /\ Len(calls) > 1 => calls[2].h = pre
         /\ \A h \in F_handlers \ {pre} :
               ReceivedBy(h) \in {<<>>, <<Q_ENTRY_SIG>>}
         /\ (Len(calls) > 1 /\ calls[1].now # pre /\ Handled(calls[2]))
              => ReceivedBy(calls[1].now) = <<Q_ENTRY_SIG>>

C17_Witness ==
    /\ DispatchDone
    /\ op.arg = MaxSig
    /\ Len(calls) = 3
    /\ calls[1].now # pre
    /\ Handled(calls[2])
    /\ ReceivedBy(pre) = <<MaxSig, Q_EXIT_SIG>>
    /\ ReceivedBy(calls[1].now) = <<Q_ENTRY_SIG>>

\* C18: every handler invocation returning (each step of an operation is
\* eventually taken), every init and every dispatch that has started
\* returns, unless a handler unset the active handler and the operation went
\* on to call through the null pointer; an init that returns has made
\* exactly two handler invocations, a dispatch on a running machine exactly
\* one when the call with the event did not return the transition result and
\* exactly three when it did, whatever the synthetic EXIT and ENTRY calls
\* returned.
C18_RunToCompletion ==
    /\ []<>(pc = "idle" \/ fault)
    /\ [](fault => m_state = nullptr /\ calls # <<>>
                      /\ calls[Len(calls)].now = nullptr)
    /\ [](Returned("init") => Len(calls) = 2)
    /\ [](DispatchDone
            => Len(calls) = (IF calls[1].ret = Q_EVENT_TRAN THEN 3 ELSE 1))

C18_Witness ==
    /\ DispatchDone
    /\ Len(calls) = 3
    /\ calls[2].ret = Q_EVENT_TRAN
    /\ calls[3].ret = Q_EVENT_TRAN

\* C19: an init(H1) called on a machine that is running with H active makes
\* the same two calls as a first init: INIT to H1, then ENTRY to the handler
\* active after the INIT call, and never an EXIT.  When no handler requests a
\* transition during the INIT or the ENTRY, H1 receives INIT then ENTRY, H1
\* is the active handler when init returns, and H (when it is not H1)
\* receives nothing.
C19_ReInit ==
    (Returned("init") /\ pre # nullptr)
      => /\ Len(calls) = 2
         /\ Delivered(calls)[1] = <<op.arg, Q_INIT_SIG>>
         /\ Delivered(calls)[2] = <<calls[1].now, Q_ENTRY_SIG>>
         /\ \A j \in 1 .. Len(calls) : calls[j].sig # Q_EXIT_SIG
         /\ (\A j \in 1 .. Len(calls) : Handled(calls[j]))
              => /\ m_state = op.arg
                 /\ ReceivedBy(op.arg) = <<Q_INIT_SIG, Q_ENTRY_SIG>>
                 /\ pre # op.arg => ReceivedBy(pre) = <<>>

C19_Witness ==
    /\ Returned("init")
    /\ pre # nullptr
    /\ pre # op.arg
    /\ \A j \in 1 .. Len(calls) : Handled(calls[j])
    /\ m_state = op.arg
    /\ ReceivedBy(pre) = <<>>
    /\ ReceivedBy(op.arg) = <<Q_INIT_SIG, Q_ENTRY_SIG>>

\* The other one of the two states of MyFSM.
OtherState(h) == IF h = p_state_a THEN p_state_b ELSE p_state_a

\* C20: every call of state_a or state_b with ENTRY, EXIT or INIT returns
\* handled and leaves the active handler as it was, and every call with
\* TIMEOUT returns the transition result and leaves the other state recorded
\* as the active handler.
C20_ExampleHandlersContract ==
    \A j \in 1 .. Len(calls) :
        /\ calls[j].h \in MyFSM_handlers
        /\ calls[j].sig \in {Q_ENTRY_SIG, Q_EXIT_SIG, Q_INIT_SIG}
             => /\ calls[j].ret = Q_EVENT_HANDLED
                /\ calls[j].now = calls[j].was
        /\ calls[j].sig = Q_TIMEOUT_SIG
             => /\ calls[j].ret = Q_EVENT_TRAN
                /\ calls[j].now = OtherState(calls[j].h)
                /\ j = Len(calls) => m_state = OtherState(calls[j].h)

C20_Witness ==
    /\ Returned("dispatch")
    /\ op.arg = Q_TIMEOUT_SIG
    /\ Len(calls) = 3
    /\ calls[1].h = p_state_b
    /\ calls[1].ret = Q_EVENT_TRAN
    /\ calls[1].now = p_state_a
    /\ calls[3].h = p_state_a
    /\ calls[3].ret = Q_EVENT_HANDLED
    /\ m_state = p_state_a

\* The signals that state_a and state_b have a case for.
Recognized == {Q_ENTRY_SIG, Q_EXIT_SIG, Q_TIMEOUT_SIG}

\* C21: every call of state_a or state_b with a signal they have no case for
\* (EMPTY, INIT, a value above TIMEOUT) returns ignored, or returns handled
\* with the same signal passed on to another handler during the operation.
C21_UnrecognizedIgnoredOrDelegated ==
    \A j \in 1 .. Len(calls) :
        calls[j].sig \notin Recognized
          => \/ calls[j].ret = Q_EVENT_IGNORED
             \/ /\ calls[j].ret = Q_EVENT_HANDLED
                /\ \E n \in 1 .. Len(calls) :
                      /\ n # j
                      /\ calls[n].h # calls[j].h
                      /\ calls[n].sig = calls[j].sig

(***************************************************************************)
(* The class F driven by an arbitrary caller, with the ENTRY and EXIT      *)
(* events that every handler has received since construction kept in life: *)
(* d[h] is the number of ENTRY minus the number of EXIT events received by  *)
(* h, ph[h] tells whether they alternated, starting with ENTRY.  kept is    *)
(* TRUE as long as every invocation has kept the handler contract: with    *)
(* ENTRY, EXIT or INIT it returned handled or ignored and designated no    *)
(* handler; with any other signal it either did the same or returned the   *)
(* transition result with a handler (not nullptr) designated.  Once kept   *)
(* is FALSE the machine is followed no further.  A handler call that does  *)
(* not return breaks the contract as well, and sets thrown.  inits counts  *)
(* the calls of init (up to two), reserved tells whether the caller has    *)
(* dispatched an event that carries ENTRY or EXIT, nested tells whether a  *)
(* handler has called init or dispatch.                                    *)
(***************************************************************************)
Clip(n) == IF n > MaxDiff THEN MaxDiff ELSE IF n < 0 - MaxDiff THEN 0 - MaxDiff ELSE n

\* The handler contract for one invocation with signal sig that returned ret,
\* designated tells whether it assigned m_state another value and now is
\* what it left there: with ENTRY, EXIT or INIT it returns handled or
\* ignored and designates nothing; with any other signal it either does the
\* same or returns the transition result with a handler (not nullptr) in
\* m_state.
Abides(sig, ret, designated, now) ==
    IF sig \in {Q_ENTRY_SIG, Q_EXIT_SIG, Q_INIT_SIG}
    THEN ret \in {Q_EVENT_HANDLED, Q_EVENT_IGNORED} /\ ~designated
    ELSE \/ ret \in {Q_EVENT_HANDLED, Q_EVENT_IGNORED} /\ ~designated
         \/ ret = Q_EVENT_TRAN /\ now # nullptr

\* The invocation c kept the handler contract.
Contract(c) == Abides(c.sig, c.ret, ~Kept(c), c.now)

\* What one more handler invocation c adds to the record lf.
Received(lf, c) ==
    IF c.sig = Q_ENTRY_SIG
    THEN [lf EXCEPT !.d[c.h] = Clip(@ + 1),
                    !.ph[c.h] = IF @ \in {"new", "out"} THEN "in" ELSE "bad",
                    !.kept = Contract(c)]
    ELSE IF c.sig = Q_EXIT_SIG
    THEN [lf EXCEPT !.d[c.h] = Clip(@ - 1),
                    !.ph[c.h] = IF @ = "in" THEN "out" ELSE "bad",
                    !.kept = Contract(c)]
    ELSE [lf EXCEPT !.kept = Contract(c)]

\* life follows the operations started and the invocations logged in calls.
Life ==
    life' =
      IF ~life.kept THEN life
      ELSE IF pc = "idle" /\ pc' # "idle"
      THEN [life EXCEPT
              !.inits = IF op'.name = "init" THEN Min(@ + 1, 2) ELSE @,
              !.reserved = @ \/ (op'.name = "dispatch"
                                 /\ op'.arg \in {Q_ENTRY_SIG, Q_EXIT_SIG})]
      ELSE IF Len(calls') = Len(calls) + 1
      THEN Received(life, calls'[Len(calls')])
      ELSE life

\* The machine is followed up to the first invocation that breaks the
\* handler contract, and up to and including the first operation that is a
\* second init or a dispatch of ENTRY or EXIT by the caller.
LifeOpen == life.kept /\ life.inits < 2 /\ ~life.reserved

NextLife ==
    \/ LifeOpen /\ CallInit /\ Life /\ UNCHANGED <<mainv, alive, stack, this, fsm>>
    \/ LifeOpen /\ CallDispatch /\ Life /\ UNCHANGED <<mainv, alive, stack, this, fsm>>
    \/ life.kept /\ init_67 /\ Life /\ UNCHANGED <<mainv, alive, stack, this, fsm>>
    \/ life.kept /\ init_68 /\ Life /\ UNCHANGED <<mainv, alive, stack, this, fsm>>
    \/ life.kept /\ dispatch_75 /\ Life /\ UNCHANGED <<mainv, alive, stack, this, fsm>>
    \/ life.kept /\ dispatch_76 /\ Life /\ UNCHANGED <<mainv, alive, stack, this, fsm>>
    \/ life.kept /\ dispatch_77 /\ Life /\ UNCHANGED <<mainv, alive, stack, this, fsm>>
    \/ life.kept /\ dispatch_78 /\ Life /\ UNCHANGED <<mainv, alive, stack, this, fsm>>
    \/ life.kept /\ handler_throw /\ life' = [life EXCEPT !.kept = FALSE, !.thrown = TRUE]
          /\ UNCHANGED <<mainv, alive, stack, this, fsm>>
    \/ QFsm_destroy /\ UNCHANGED <<mainv, auxv>>

SpecLife == Init /\ [][NextLife]_vars

\* C22 as claimed: handlers that keep the handler contract (they designate
\* a handler only in a call with an application event, returning the
\* transition result): when init has returned, and when any
\* dispatch after it has returned, every handler other than the active one
\* has received as many ENTRY as EXIT events, the active handler one ENTRY
\* more, and for every handler they alternated, starting with ENTRY.
C22_Balanced ==
    (pc = "idle" /\ life.kept /\ life.inits = 1)
      => /\ life.d[m_state] = 1
         /\ life.ph[m_state] = "in"
         /\ \A h \in QStateHandler \ {m_state} :
               life.d[h] = 0 /\ life.ph[h] \in {"new", "out"}

\* C22 amended: the same, as long as the caller has dispatched no event that
\* carries the ENTRY or the EXIT signal.
C22_BalancedInUse ==
    (pc = "idle" /\ life.kept /\ life.inits = 1 /\ ~life.reserved)
      => /\ life.d[m_state] = 1
         /\ life.ph[m_state] = "in"
         /\ \A h \in QStateHandler \ {m_state} :
               life.d[h] = 0 /\ life.ph[h] \in {"new", "out"}

C22_Witness ==
    /\ pc = "idle"
    /\ life.kept
    /\ life.inits = 1
    /\ ~life.reserved
    /\ op.name = "dispatch"
    /\ Len(calls) = 3
    /\ calls[1].now # pre
    /\ life.ph[pre] = "out"
    /\ life.ph[m_state] = "in"
    /\ \E h \in QStateHandler \ {pre, m_state} : life.ph[h] = "out"

(***************************************************************************)
(* main() with its loop dispatching any event: init(state_a), then ten     *)
(* dispatches of which k carry the timeout.                                *)
(***************************************************************************)
\* lines 55-57 with any signal in the event: for (...) fsm.dispatch(ev)
main_56_any ==
    /\ op.name # "none"
    /\ i < MainLoopCount
    /\ \E sig \in Signals : /\ dispatch(QEvent(sig))
                            /\ k' = IF sig = my_event[0].sig THEN k + 1 ELSE k
    /\ i' = i + 1
    /\ UNCHANGED <<cnt, alive, auxv>>

NextMainAny ==
    \/ main_53
    \/ main_56_any
    \/ main_59
    \/ init_67 /\ UNCHANGED <<mainv, alive, auxv>>
    \/ init_68 /\ UNCHANGED <<mainv, alive, auxv>>
    \/ dispatch_75 /\ UNCHANGED <<mainv, alive, auxv>>
    \/ dispatch_76 /\ UNCHANGED <<mainv, alive, auxv>>
    \/ dispatch_77 /\ UNCHANGED <<mainv, alive, auxv>>
    \/ dispatch_78 /\ UNCHANGED <<mainv, alive, auxv>>

SpecMainAny == Init /\ [][NextMainAny]_vars

\* C23: in the example machine started with init(state_a), whenever no
\* operation is in progress the active state is state_b if the number k of
\* timeouts dispatched so far is odd and state_a if it is even, whatever
\* other events were dispatched in between; after the ten timeouts of main
\* it is state_a.
C23_Parity ==
    (pc = "idle" /\ op.name # "none")
      => /\ m_state = (IF k % 2 = 1 THEN p_state_b ELSE p_state_a)
         /\ (i = MainLoopCount /\ k = MainLoopCount) => m_state = p_state_a

C23_Witness ==
    /\ pc = "idle"
    /\ i = MainLoopCount
    /\ k = 3
    /\ op.name = "dispatch"
    /\ op.arg = Q_EXIT_SIG
    /\ m_state = p_state_b

\* C24: the active-handler slot changes only in the first step of init
\* (line 66) and inside a handler call (one that returns or one that
\* throws), where it takes the handler given to Q_TRAN; no step of dispatch
\* itself changes it.  So when dispatch is about
\* to deliver the synthetic EXIT to the source, and while the source
\* processes it, the slot already holds the target that the call with the
\* event recorded.
C24_HandlerWritesSlot ==
    /\ [](pc = "dispatch_77" => r = Q_EVENT_TRAN /\ m_state = calls[1].now)
    /\ []((op.name = "dispatch" /\ Len(calls) >= 2)
            => calls[2].h = calls[1].h /\ calls[2].was = calls[1].now)
    /\ [][m_state' # m_state
            => \/ pc = "idle" /\ pc' = "init_67" /\ m_state' = op'.arg
               \/ /\ Len(calls') = Len(calls) + 1
                  /\ pc \in CallSites
                  /\ calls'[Len(calls')].was = m_state
                  /\ calls'[Len(calls')].now = m_state'
               \/ Thrown]_vars

C24_Witness ==
    /\ pc = "dispatch_78"
    /\ calls[1].now # pre
    /\ calls[2].h = pre
    /\ calls[2].sig = Q_EXIT_SIG
    /\ calls[2].was = calls[1].now
    /\ calls[2].ret # Q_EVENT_TRAN
    /\ m_state = calls[1].now

\* C25: a dispatch in which the source A records B with the event and then
\* records a handler C while it processes the synthetic EXIT delivers the
\* ENTRY to C; B, when it is neither A nor C, receives nothing in that
\* dispatch; and C is the active handler when dispatch returns, unless C
\* itself records yet another handler while it processes that ENTRY.
C25_ExitRedirects ==
    (DispatchDone /\ Len(calls) = 3 /\ ~Kept(calls[2]))
      => /\ Delivered(calls) = <<<<pre, op.arg>>, <<pre, Q_EXIT_SIG>>,
                                 <<calls[2].now, Q_ENTRY_SIG>>>>
         /\ calls[1].now \notin {pre, calls[2].now}
              => ReceivedBy(calls[1].now) = <<>>
         /\ Kept(calls[3]) => m_state = calls[2].now

C25_Witness ==
    /\ DispatchDone
    /\ Len(calls) = 3
    /\ ~Kept(calls[2])
    /\ calls[1].now \notin {pre, calls[2].now}
    /\ calls[2].now # pre
    /\ calls[3].h = calls[2].now
    /\ Handled(calls[3])
    /\ ReceivedBy(calls[1].now) = <<>>
    /\ m_state = calls[2].now

\* An init, or a dispatch with a transition, has returned, and the handler
\* that received its ENTRY recorded another handler during that call.
EntryRedirected ==
    /\ pc = "idle"
    /\ \/ op.name = "init"
       \/ op.name = "dispatch" /\ pre # nullptr /\ Len(calls) > 1
    /\ calls[Len(calls)].sig = Q_ENTRY_SIG
    /\ ~Kept(calls[Len(calls)])
    /\ calls[Len(calls)].now # nullptr

\* C26: when the handler B that receives the ENTRY of an init or of a
\* dispatch records a handler C during that call, the ENTRY call is the last
\* call of the operation (the second of init, the third of dispatch): C gets
\* no ENTRY and B no EXIT; C is the active handler when the operation
\* returns, and a dispatch called next takes C as its source and delivers its
\* event to C.
C26_EntryRedirects ==
    /\ [](EntryRedirected
            => /\ Len(calls) = (IF op.name = "init" THEN 2 ELSE 3)
               /\ m_state = calls[Len(calls)].now
               /\ calls[Len(calls) - 1].sig
                    = (IF op.name = "init" THEN Q_INIT_SIG ELSE Q_EXIT_SIG))
    /\ [][(EntryRedirected /\ pc' = "dispatch_75")
            => /\ s' = calls[Len(calls)].now
               /\ pre' = calls[Len(calls)].now]_vars
    /\ [](pc = "dispatch_76" => Delivered(calls) = <<<<pre, op.arg>>>> /\ s = pre)

C26_Witness ==
    /\ EntryRedirected
    /\ op.name = "dispatch"
    /\ Len(calls) = 3
    /\ calls[3].now \notin {calls[1].h, calls[3].h}
    /\ Handled(calls[2])
    /\ ReceivedBy(calls[3].now) = <<>>
    /\ ReceivedBy(calls[3].h) = <<Q_ENTRY_SIG>>
    /\ m_state = calls[3].now

\* C27: of the calls an operation makes, those of init carry INIT (the
\* first, once) and ENTRY (the second) and never EXIT or EMPTY; those of
\* dispatch carry the signal of the event given to dispatch (the first), EXIT
\* (the second) and ENTRY (the third).  So a handler sees EMPTY or INIT in a
\* dispatch only when the caller dispatched that signal, EXIT never reaches
\* a handler from init, and every signal other than ENTRY, EXIT and INIT
\* that a handler sees is the one the caller passed to dispatch.
C27_ReservedOrigin ==
    /\ op.name = "init"
         => /\ Len(calls) <= 2
            /\ \A j \in 1 .. Len(calls) :
                  calls[j].sig = (IF j = 1 THEN Q_INIT_SIG ELSE Q_ENTRY_SIG)
            /\ pc = "idle" => Len(calls) = 2
    /\ op.name = "dispatch"
         => /\ Len(calls) <= 3
            /\ \A j \in 1 .. Len(calls) :
                  /\ calls[j].sig = (IF j = 1 THEN op.arg
                                     ELSE IF j = 2 THEN Q_EXIT_SIG ELSE Q_ENTRY_SIG)
                  /\ calls[j].sig \in {Q_EMPTY_SIG, Q_INIT_SIG}
                       => j = 1 /\ op.arg = calls[j].sig
                  /\ calls[j].sig = Q_EXIT_SIG => j = 2 \/ op.arg = Q_EXIT_SIG
                  /\ calls[j].sig \notin {Q_ENTRY_SIG, Q_EXIT_SIG}
                       => calls[j].sig = op.arg
    /\ op.name = "none" => calls = <<>>

C27_Witness ==
    /\ Returned("dispatch")
    /\ op.arg = Q_EMPTY_SIG
    /\ Delivered(calls) = <<<<pre, Q_EMPTY_SIG>>, <<pre, Q_EXIT_SIG>>,
                            <<m_state, Q_ENTRY_SIG>>>>
    /\ m_state # pre

(***************************************************************************)
(* Re-entrant use: QFsm has no guard against a handler of F that calls     *)
(* init or dispatch on its own machine.  The operation that made the       *)
(* handler call is suspended in that call, at its line and with its locals *)
(* s, e and r, until the nested operation has returned and the handler     *)
(* returns in its turn.  The handler may assign m_state before its call;   *)
(* after it, it ends like any handler call: with a value and, possibly, an *)
(* assignment to m_state, or with an exception.  calls lists the           *)
(* invocations in the order in which they began.  The machine is followed  *)
(* through the first such call: the operations nest one deep.              *)
(***************************************************************************)
\* The handler call of the line about to run begins, and the handler called
\* goes on to call the operation named: the operation that called the
\* handler is suspended.  m is the value of m_state when the handler makes
\* its call: the value it found, or the value it has assigned (Q_TRAN)
\* before the call.  The ENTRY or EXIT that the handler has received is
\* counted at once; a handler that has assigned m_state while it processes
\* ENTRY, EXIT or INIT has broken the contract.
Suspend(name, m) ==
    /\ pc \in CallSites
    /\ Callee \in F_handlers
    /\ ~life.nested
    /\ m \in {m_state} \cup F_targets
    /\ stack' = <<[pc |-> pc, s |-> s, e |-> e, r |-> r, op |-> op,
                   pre |-> pre, calls |-> calls, h |-> Callee,
                   sig |-> Passed, was |-> m_state, at |-> m]>> \o stack
    /\ life' = [Received(life, [h |-> Callee, sig |-> Passed,
                                ret |-> Q_EVENT_HANDLED, was |-> m_state,
                                now |-> m_state])
                  EXCEPT !.nested = TRUE,
                         !.kept = life.kept /\ (Passed \in {Q_ENTRY_SIG, Q_EXIT_SIG,
                                                            Q_INIT_SIG}
                                                  => m = m_state),
                         !.inits = IF name = "init" THEN Min(@ + 1, 2) ELSE @]

\* The handler called calls dispatch(ev) with m in m_state: lines 72-74 of
\* the nested call.
handler_dispatch(ev, m) ==
    /\ Suspend("dispatch", m)
    /\ m_state' = m
    /\ op' = [name |-> "dispatch", arg |-> ev.sig]
    /\ pre' = m
    /\ calls' = <<>>
    /\ e' = ev
    /\ IF m = nullptr
       THEN /\ pc' = "idle"
            /\ UNCHANGED s
       ELSE /\ pc' = "dispatch_75"
            /\ s' = m
    /\ UNCHANGED <<r, fault, inited, quiet, run>>

\* The handler called calls init(init_state) with m in m_state: line 66 of
\* the nested call.
handler_init(init_state, m) ==
    /\ Suspend("init", m)
    /\ m_state' = init_state
    /\ pc' = "init_67"
    /\ op' = [name |-> "init", arg |-> init_state]
    /\ pre' = m
    /\ calls' = <<>>
    /\ s' = nullptr
    /\ e' = QEvent(Q_EMPTY_SIG)
    /\ r' = Q_EVENT_HANDLED
    /\ UNCHANGED <<fault, inited, quiet, run>>

\* The handler that called init or dispatch does not return: it lets the
\* exception that left the nested operation pass, or throws after the nested
\* operation has returned, possibly after an assignment to m_state (Q_TRAN)
\* made once the nested call was over.  The operation suspended in the call
\* is left at the line of the call, as by handler_throw, with m_state as the
\* handler left it.
handler_unwind ==
    /\ pc = "idle"
    /\ stack # <<>>
    /\ \E out \in Throws(Head(stack).h, QEvent(Head(stack).sig)) :
          m_state' = IF out.tran THEN out.target ELSE m_state
    /\ calls' = Head(stack).calls \o calls
    /\ s' = Head(stack).s
    /\ e' = Head(stack).e
    /\ r' = Head(stack).r
    /\ pre' = Head(stack).pre
    /\ op' = [name |-> "thrown", arg |-> Head(stack).op.arg]
    /\ stack' = Tail(stack)
    /\ life' = [life EXCEPT !.kept = FALSE, !.thrown = TRUE]
    /\ quiet' = [n |-> 0, anchor |-> m_state', lifecycle |-> FALSE]
    /\ run' = NoRun
    /\ UNCHANGED <<pc, fault, inited>>

\* The nested operation has returned and the handler returns; the operation
\* that called it writes that handler back to m_state before it goes on.
handler_return_restore ==
    /\ pc = "idle"
    /\ stack # <<>>
    /\ \E out \in Handler(Head(stack).h, QEvent(Head(stack).sig)) :
          /\ m_state' = Head(stack).h
          /\ calls' = Head(stack).calls
                        \o <<[h |-> Head(stack).h, sig |-> Head(stack).sig,
                              ret |-> out.ret, was |-> Head(stack).was,
                              now |-> m_state']>>
                        \o calls
          /\ r' = IF Head(stack).pc = "dispatch_75" THEN out.ret
                  ELSE Head(stack).r
          /\ life' = [life EXCEPT !.kept = @ /\ ~out.tran
                                           /\ out.ret # Q_EVENT_TRAN]
    /\ s' = Head(stack).s
    /\ e' = Head(stack).e
    /\ op' = Head(stack).op
    /\ pre' = Head(stack).pre
    /\ pc' = After(Head(stack).pc)
    /\ stack' = Tail(stack)
    /\ quiet' = [n |-> 0, anchor |-> m_state', lifecycle |-> FALSE]
    /\ run' = NoRun
    /\ UNCHANGED <<fault, inited>>

\* The nested operation has returned: the handler ends its call with the
\* outcome out, and the operation that called it goes on after the line of
\* the call.  The record of the call tells what m_state held when the call
\* began and what it holds now that the call has returned.
handler_return ==
    /\ pc = "idle"
    /\ stack # <<>>
    /\ \E out \in Handler(Head(stack).h, QEvent(Head(stack).sig)) :
          /\ m_state' = IF out.tran THEN out.target ELSE m_state
          /\ calls' = Head(stack).calls
                        \o <<[h |-> Head(stack).h, sig |-> Head(stack).sig,
                              ret |-> out.ret, was |-> Head(stack).was,
                              now |-> m_state']>>
                        \o calls
          /\ r' = IF Head(stack).pc = "dispatch_75" THEN out.ret
                  ELSE Head(stack).r
          /\ life' = [life EXCEPT !.kept =
                         @ /\ Abides(Head(stack).sig, out.ret,
                                     Head(stack).at # Head(stack).was
                                        \/ m_state' # m_state,
                                     m_state')]
    /\ s' = Head(stack).s
    /\ e' = Head(stack).e
    /\ op' = Head(stack).op
    /\ pre' = Head(stack).pre
    /\ pc' = After(Head(stack).pc)
    /\ stack' = Tail(stack)
    /\ quiet' = [n |-> 0, anchor |-> m_state', lifecycle |-> FALSE]
    /\ run' = NoRun
    /\ UNCHANGED <<fault, inited>>

\* The events dispatched, by the caller and by the handler, carry an
\* application signal.
NestSignals == {Q_TIMEOUT_SIG}

\* The caller initialises the machine once and dispatches one event to it.
\* The machine is followed up to and including the first
\* operation in which a handler called init or dispatch.  An operation in
\* which an invocation breaks the handler contract is followed to its end,
\* and the machine no further: the handler that called init or dispatch
\* ends its call with any outcome, returned or thrown, and the invocations
\* that init and dispatch go on to make after a breach handle or ignore
\* their event.
NestOpen == stack = <<>> /\ LifeOpen /\ ~life.nested /\ op.name \in {"none", "init"}

\* The step runs in a machine whose handlers have kept the contract so far,
\* or it makes an invocation that handles or ignores its event.
Abiding ==
    \/ life.kept
    \/ Len(calls') = Len(calls) + 1 => Handled(calls'[Len(calls')])
                                         /\ Contract(calls'[Len(calls')])

NextNested ==
    \/ NestOpen /\ op.name = "none" /\ CallInit /\ Life
                /\ UNCHANGED <<mainv, alive, stack, this, fsm>>
    \/ NestOpen /\ alive /\ (\E sig \in NestSignals : dispatch(QEvent(sig))) /\ Life
                /\ UNCHANGED <<mainv, alive, stack, this, fsm>>
    \/ init_67 /\ Abiding /\ Life /\ UNCHANGED <<mainv, alive, stack, this, fsm>>
    \/ init_68 /\ Abiding /\ Life /\ UNCHANGED <<mainv, alive, stack, this, fsm>>
    \/ dispatch_75 /\ Abiding /\ Life /\ UNCHANGED <<mainv, alive, stack, this, fsm>>
    \/ dispatch_76 /\ Life /\ UNCHANGED <<mainv, alive, stack, this, fsm>>
    \/ dispatch_77 /\ Abiding /\ Life /\ UNCHANGED <<mainv, alive, stack, this, fsm>>
    \/ dispatch_78 /\ Abiding /\ Life /\ UNCHANGED <<mainv, alive, stack, this, fsm>>
    \/ life.kept /\ handler_throw /\ life' = [life EXCEPT !.kept = FALSE, !.thrown = TRUE]
          /\ UNCHANGED <<mainv, alive, stack, this, fsm>>
    \/ life.kept /\ (\E sig \in NestSignals : \E m \in F_targets :
                        handler_dispatch(QEvent(sig), m))
          /\ UNCHANGED <<mainv, alive, this, fsm>>
    \/ life.kept /\ (\E h \in F_handlers : \E m \in F_targets : handler_init(h, m))
          /\ UNCHANGED <<mainv, alive, this, fsm>>
    \/ handler_return /\ UNCHANGED <<mainv, alive, this, fsm>>
    \/ handler_unwind
          /\ UNCHANGED <<mainv, alive, this, fsm>>
    \/ stack = <<>> /\ life.kept /\ QFsm_destroy /\ UNCHANGED <<mainv, auxv>>

SpecNested == Init /\ [][NextNested]_vars

\* An outer dispatch has returned in which the handler entered called
\* dispatch, no other handler having called init or dispatch: calls holds
\* the three calls of the outer dispatch followed by those of the nested
\* one.
NestedDone ==
    /\ pc = "idle"
    /\ stack = <<>>
    /\ op.name = "dispatch"
    /\ life.nested
    /\ Len(calls) > 3
    /\ calls[2].sig = Q_EXIT_SIG
    /\ calls[3].sig = Q_ENTRY_SIG
    /\ calls[4].sig \in NestSignals

\* C28: when the handler B entered by a transition calls dispatch while it
\* processes the ENTRY (every handler call returning), the nested dispatch
\* delivers its event to the handler that is active at the call (B itself,
\* when B assigned nothing before it) and, if that handler returns the
\* transition result, EXIT to it and ENTRY to the new active handler, all
\* before the outer dispatch returns; when the outer dispatch has returned,
\* the active handler is the one that the ENTRY call of B left and, for
\* handlers that keep to the contract (B returning handled from the ENTRY
\* and designating no handler before or after its call), it is the one the
\* nested dispatch left, and it is the only handler that has received one
\* ENTRY more than EXIT; every other handler has received as many of each.
C28_NestedDispatch ==
    /\ stack # <<>> => /\ Head(stack).pc \in CallSites
                       /\ life.kept => pc # "crashed"
    /\ (NestedDone /\ ~life.thrown)
         => /\ calls[4].h = calls[4].was
            /\ calls[4].was = calls[3].was => calls[4].h = calls[3].h
            /\ calls[4].ret # Q_EVENT_TRAN => Len(calls) = 4
            /\ calls[4].ret = Q_EVENT_TRAN
                 => /\ Len(calls) = 6
                    /\ Delivered(calls)[5] = <<calls[4].h, Q_EXIT_SIG>>
                    /\ Delivered(calls)[6] = <<calls[5].now, Q_ENTRY_SIG>>
            /\ m_state = calls[3].now
            /\ life.kept
                 => /\ m_state = calls[Len(calls)].now
                    /\ life.d[m_state] = 1
                    /\ \A h \in QStateHandler \ {m_state} : life.d[h] = 0

C28_Witness ==
    /\ NestedDone
    /\ life.kept
    /\ Len(calls) = 6
    /\ calls[4].ret = Q_EVENT_TRAN
    /\ calls[6].h \notin {calls[1].h, calls[3].h}
    /\ m_state = calls[6].h
    /\ calls[3].was = calls[3].h
    /\ calls[3].now = calls[6].h
    /\ life.d[m_state] = 1
    /\ life.ph[calls[3].h] = "out"
    /\ life.ph[calls[1].h] = "out"

(***************************************************************************)
(* Several machine objects of the class F.  m_state is a non-static data   *)
(* member: every object has its own, kept in fsm; the variable m_state is   *)
(* this->m_state, the member of the object whose init or dispatch runs.     *)
(* m_reserved_ev is a static const member, one table for all objects.       *)
(***************************************************************************)
\* One m_state for all objects, as a static member would be.
Store_static == fsm' = [id \in Machines |-> m_state']

\* QStateHandler m_state (line 83): a write to m_state is a write to the
\* member of the object that this points to.
Store == fsm' = [fsm EXCEPT ![this] = m_state']

\* The caller turns to the machine object t: its next call is t.init(...) or
\* t.dispatch(...).  No operation on t is in progress or has been observed:
\* the record of the last operation and the streaks of dispatches, which are
\* those of one object, start anew, and the locals of the dispatch that has
\* returned are gone.
Select(t) ==
    /\ pc = "idle"
    /\ t # this
    /\ this' = t
    /\ m_state' = fsm[t]
    /\ s' = nullptr
    /\ e' = QEvent(Q_EMPTY_SIG)
    /\ r' = Q_EVENT_HANDLED
    /\ op' = [name |-> "none", arg |-> 0]
    /\ pre' = nullptr
    /\ calls' = <<>>
    /\ quiet' = [n |-> 0, anchor |-> nullptr, lifecycle |-> FALSE]
    /\ run' = NoRun
    /\ UNCHANGED <<pc, fault, inited, fsm>>

\* QFsm declares no copy operation: the implicit copy assignment, t = u,
\* copies m_state and calls no handler.  v is the m_state of the object
\* assigned from: another machine object, or a temporary just constructed
\* (nullptr).  What was observed of t's last operation is gone, as in Select.
QFsm_assign(t, v) ==
    /\ pc = "idle"
    /\ this' = t
    /\ m_state' = v
    /\ fsm' = [fsm EXCEPT ![t] = v]
    /\ s' = nullptr
    /\ e' = QEvent(Q_EMPTY_SIG)
    /\ r' = Q_EVENT_HANDLED
    /\ op' = [name |-> "assign", arg |-> t]
    /\ pre' = fsm[t]
    /\ calls' = <<>>
    /\ quiet' = [n |-> 0, anchor |-> nullptr, lifecycle |-> FALSE]
    /\ run' = NoRun
    /\ UNCHANGED <<pc, fault, inited>>

\* The values that the caller can assign to the machine object t.
Assignable(t) == {fsm[u] : u \in Machines \ {t}} \cup {nullptr}

\* The objects are followed up to the first invocation that breaks the
\* handler contract or does not return.
TwoOpen == op.name # "thrown" /\ \A j \in 1 .. Len(calls) : Contract(calls[j])

NextTwo ==
    \/ TwoOpen /\ (\E t \in Machines : Select(t))
          /\ UNCHANGED <<mainv, alive, life, stack>>
    \/ TwoOpen /\ (\E t \in Machines : \E v \in Assignable(t) : QFsm_assign(t, v))
          /\ UNCHANGED <<mainv, alive, life, stack>>
    \/ TwoOpen /\ CallInit /\ Store /\ UNCHANGED <<mainv, alive, life, stack, this>>
    \/ TwoOpen /\ alive /\ (\E sig \in NestSignals : dispatch(QEvent(sig))) /\ Store
          /\ UNCHANGED <<mainv, alive, life, stack, this>>
    \/ TwoOpen /\ init_67 /\ Store /\ UNCHANGED <<mainv, alive, life, stack, this>>
    \/ TwoOpen /\ init_68 /\ Store /\ UNCHANGED <<mainv, alive, life, stack, this>>
    \/ TwoOpen /\ dispatch_75 /\ Store /\ UNCHANGED <<mainv, alive, life, stack, this>>
    \/ TwoOpen /\ dispatch_76 /\ Store /\ UNCHANGED <<mainv, alive, life, stack, this>>
    \/ TwoOpen /\ dispatch_77 /\ Store /\ UNCHANGED <<mainv, alive, life, stack, this>>
    \/ TwoOpen /\ dispatch_78 /\ Store /\ UNCHANGED <<mainv, alive, life, stack, this>>
    \/ TwoOpen /\ handler_throw /\ Store /\ UNCHANGED <<mainv, alive, life, stack, this>>

SpecTwo == Init /\ [][NextTwo]_vars

\* C29: every step of init or dispatch on a machine object leaves the active
\* handler of every other object as it was; a handler invoked by the step is
\* the one this object has active (or had when its dispatch began), it runs
\* on this object: the slot it finds and the slot it leaves are this
\* object's; turning to another object invokes nothing and changes no
\* object's active handler; and the active handler of an object changes only
\* in an init or a handler call (one that returns or one that throws) on
\* that object, or when the caller assigns
\* another object to it, which invokes nothing.
C29_Independent ==
    /\ [](m_state = fsm[this])
    /\ [][/\ \A id \in Machines \ {this'} : fsm'[id] = fsm[id]
          /\ this' # this => calls' = <<>>
          /\ fsm' # fsm
               => \/ /\ this' = this
                     /\ \/ pc = "idle" /\ pc' = "init_67"
                        \/ Len(calls') = Len(calls) + 1
                        \/ Thrown
                  \/ /\ op'.name = "assign"
                     /\ pc = "idle"
                     /\ calls' = <<>>
                     /\ fsm'[this'] \in Assignable(this')
          /\ Len(calls') = Len(calls) + 1
               => /\ this' = this
                  /\ calls'[Len(calls')].h \in {s, fsm[this]}
                  /\ calls'[Len(calls')].was = fsm[this]
                  /\ calls'[Len(calls')].now = fsm'[this]]_vars

C29_Witness ==
    /\ Returned("dispatch")
    /\ this = 2
    /\ Len(calls) = 3
    /\ fsm[2] = calls[1].now
    /\ fsm[2] # pre
    /\ fsm[1] # nullptr
    /\ fsm[1] \notin {pre, fsm[2]}

====
